---- MODULE Spec2Model ----
(***************************************************************************)
(* Model of WSIatScale/clustering.py: MyBOWHierarchicalLinkage.fit_predict *)
(* and the methods it calls.  One action per method call of fit_predict.   *)
(*                                                                         *)
(* Floating point values are fixed-point integers: tf-idf weights in units *)
(* of 1/IdfScale, cosine distances in units of 1/DistScale.  Averages of   *)
(* distances (average linkage) are exact fractions [num, den].             *)
(***************************************************************************)
EXTENDS Integers, Sequences, FiniteSets

VARIABLES
    data,                  \* rep_instances.data: sequence of [doc_id, reps]
    max_number_senses,     \* self.max_number_senses
    min_sense_instances,   \* self.min_sense_instances
    pc,                    \* the statement of fit_predict / merge_small_senses to run next
    error,                 \* the exception that ended the call, "none" otherwise
    labels,                \* labels (0-based), aligned with data
    doc_ids,               \* doc_ids, aligned with data
    rep_mat,               \* rep_mat: one feature vector per instance
    n_senses,              \* n_senses
    big_senses,            \* big_senses
    doc_id_to_cluster,     \* doc_id_to_cluster
    sense_means,           \* sense_means: per sense [sum, cnt] (the mean is sum / cnt)
    merge_target,          \* sense_remapping as lines 109-113 leave it (closest big sense)
    sense_remapping,       \* sense_remapping after line 115
    senses                 \* the SenseMap fit_predict returns

vars == <<data, max_number_senses, min_sense_instances, pc, error, labels, doc_ids,
          rep_mat, n_senses, big_senses, doc_id_to_cluster, sense_means,
          merge_target, sense_remapping, senses>>

----------------------------------------------------------------------------
(* Bounds of the explored inputs. *)

MaxInst == 5        \* instances in a collection: 1 .. MaxInst
MaxSenses == 3      \* max_number_senses ranges over 0 .. MaxSenses
MaxMinInst == 3     \* min_sense_instances ranges over -1 .. MaxMinInst
MaxMergeSenses == 3 \* n_senses of a direct merge_small_senses call: 1 .. MaxMergeSenses

(* The attributes as __init__ sets them. *)
DefaultMaxNumberSenses == 7
DefaultMinSenseInstances == 2

(* The substitute sets an instance may carry (tokens are 1 and 2).  Every  *)
(* instance has at least one substitute, so no feature vector is zero.     *)
RepChoices == {{1}, {2}, {1, 2}}
Tokens == UNION RepChoices

(* The centroids a direct merge_small_senses call may be handed. *)
MeanVecs == {<<1, 0>>, <<2, 0>>, <<0, 1>>, <<1, 1>>, <<2, 1>>}

----------------------------------------------------------------------------
(* Fixed-point arithmetic. *)

IdfScale == 20
DistScale == 1000

(* IdfTable[n][df] = round(IdfScale * (ln((1 + n) / (1 + df)) + 1)):        *)
(* TfidfTransformer(norm=None) with its defaults smooth_idf, use_idf.      *)
IdfTable ==
  << <<20>>,
     <<28, 20>>,
     <<34, 26, 20>>,
     <<38, 30, 24, 20>>,
     <<42, 34, 28, 24, 20>>,
     <<45, 37, 31, 27, 23, 20>>,
     <<48, 40, 34, 29, 26, 23, 20>>,
     <<50, 42, 36, 32, 28, 25, 22, 20>> >>

RECURSIVE Isqrt(_)
Isqrt(x) ==
  IF x < 2 THEN x
  ELSE LET small == 2 * Isqrt(x \div 4)
           large == small + 1
       IN IF large * large > x THEN small ELSE large

(* The elements of a finite set of integers in ascending order. *)
RECURSIVE Ascending(_)
Ascending(S) ==
  IF S = {} THEN <<>>
  ELSE LET m == CHOOSE x \in S : \A y \in S : x <= y
       IN <<m>> \o Ascending(S \ {m})

(* The sum of f over the finite set S of arguments. *)
RECURSIVE SumF(_, _)
SumF(f, S) ==
  IF S = {} THEN 0
  ELSE LET x == CHOOSE y \in S : TRUE
       IN f[x] + SumF(f, S \ {x})

Dot(u, v) == SumF([t \in DOMAIN u |-> u[t] * v[t]], DOMAIN u)

(* scipy's cosine distance, 1 - u.v / (|u| |v|), the cosine clipped to 1. *)
CosineDist(u, v) ==
  LET c == (DistScale * Dot(u, v)) \div Isqrt(Dot(u, u) * Dot(v, v))
  IN DistScale - (IF c > DistScale THEN DistScale ELSE c)

(* Fractions [num, den] with den > 0. *)
FracLess(p, q) == p.num * q.den < q.num * p.den
FracLeq(p, q) == p.num * q.den <= q.num * p.den

----------------------------------------------------------------------------
(* get_initial_labels: vectorizer, tf-idf, pdist, linkage, fcluster. *)

(* DictVectorizer(sparse=False).fit_transform on {r: 1 for r in reps}: one  *)
(* column per token, 1 where the instance has the token.  A token no       *)
(* instance has keeps an all-zero column here, which changes no product.   *)
DictVectorize(d) ==
  [i \in 1..Len(d) |-> [t \in Tokens |-> IF t \in d[i].reps THEN 1 ELSE 0]]

(* TfidfTransformer(norm=None).fit_transform: each column times its idf. *)
Tfidf(X) ==
  LET n == Len(X)
      df == [t \in Tokens |-> Cardinality({i \in 1..n : X[i][t] > 0})]
  IN [i \in 1..n |->
        [t \in Tokens |-> IF df[t] = 0 THEN 0 ELSE X[i][t] * IdfTable[n][df[t]]]]

(* pdist(rep_mat, metric='cosine'), kept as the square matrix. *)
Pdist(X) ==
  [i \in 1..Len(X) |-> [j \in 1..Len(X) |-> CosineDist(X[i], X[j])]]

(* Average distance between two clusters of observations. *)
ClusterDist(A, B, D) ==
  [num |-> SumF([p \in A \X B |-> D[p[1]][p[2]]], A \X B),
   den |-> Cardinality(A) * Cardinality(B)]

(* linkage(..., method='average'): merge the two closest clusters until one *)
(* is left.  Observations are nodes 1..n, the cluster of row k is node     *)
(* n + k, rows come in ascending distance with the smaller node id on the  *)
(* left.  Among equally close pairs the one with the smallest ids merges.  *)
RECURSIVE LinkageStep(_, _, _, _)
LinkageStep(n, D, mem, Z) ==
  LET act == DOMAIN mem
  IN IF Cardinality(act) <= 1 THEN Z
     ELSE LET pairs == {p \in act \X act : p[1] < p[2]}
              dm == [p \in pairs |-> ClusterDist(mem[p[1]], mem[p[2]], D)]
              best == CHOOSE p \in pairs : \A q \in pairs :
                         \/ FracLess(dm[p], dm[q])
                         \/ /\ FracLeq(dm[p], dm[q])
                            /\ \/ p[1] < q[1]
                               \/ p[1] = q[1] /\ p[2] <= q[2]
              new == n + Len(Z) + 1
              merged == mem[best[1]] \cup mem[best[2]]
              row == [left |-> best[1], right |-> best[2], dist |-> dm[best],
                      size |-> Cardinality(merged)]
              mem2 == [x \in (act \ {best[1], best[2]}) \cup {new} |->
                          IF x = new THEN merged ELSE mem[x]]
          IN LinkageStep(n, D, mem2, Append(Z, row))

Linkage(D) ==
  LinkageStep(Len(D), D, [i \in 1..Len(D) |-> {i}], <<>>)

(* hierarchical_linkage[i, 2] with Python's indexing of len rows: the      *)
(* 1-based row, 0 when i is out of range (IndexError).                     *)
PyRow(len, i) ==
  IF i >= 0 THEN (IF i < len THEN i + 1 ELSE 0)
  ELSE (IF -i <= len THEN len + i + 1 ELSE 0)

(* The observations below a node of the tree. *)
RECURSIVE Members(_, _, _)
Members(Z, n, node) ==
  IF node <= n THEN {node}
  ELSE Members(Z, n, Z[node - n].left) \cup Members(Z, n, Z[node - n].right)

FracMax(p, q) == IF FracLess(p, q) THEN q ELSE p

(* fcluster's get_max_dist_for_each_cluster: the largest merge distance in *)
(* the subtree of a node. *)
RECURSIVE MaxDist(_, _, _)
MaxDist(Z, n, node) ==
  IF node <= n THEN [num |-> 0, den |-> 1]
  ELSE FracMax(Z[node - n].dist,
               FracMax(MaxDist(Z, n, Z[node - n].left), MaxDist(Z, n, Z[node - n].right)))

(* fcluster's cluster_monocrit: walk the tree from the root.  A node whose  *)
(* MaxDist is within the cutoff leads a flat cluster, numbered when the    *)
(* walk first meets it.  Below any other node the walk numbers the         *)
(* clusters of the left subtree, then those of the right subtree, then the *)
(* left child and the right child where they are single observations.     *)
(* The result lists the leaders and single observations in that order.    *)
RECURSIVE ClusterMonocrit(_, _, _, _)
ClusterMonocrit(Z, n, cutoff, root) ==
  IF FracLeq(MaxDist(Z, n, root), cutoff) THEN <<root>>
  ELSE (IF Z[root - n].left > n THEN ClusterMonocrit(Z, n, cutoff, Z[root - n].left) ELSE <<>>)
       \o (IF Z[root - n].right > n THEN ClusterMonocrit(Z, n, cutoff, Z[root - n].right) ELSE <<>>)
       \o (IF Z[root - n].left <= n THEN <<Z[root - n].left>> ELSE <<>>)
       \o (IF Z[root - n].right <= n THEN <<Z[root - n].right>> ELSE <<>>)

(* The flat cluster number of every observation, given the numbering order. *)
FlatNumbers(Z, n, order) ==
  [i \in 1..n |-> CHOOSE k \in DOMAIN order : i \in Members(Z, n, order[k])]

(* fcluster(Z, t, 'distance'): flat cluster numbers 1.. of the observations. *)
Fcluster(Z, t) ==
  FlatNumbers(Z, Len(Z) + 1, ClusterMonocrit(Z, Len(Z) + 1, t, 2 * Len(Z) + 1))

SeqMax(s) == CHOOSE m \in {s[i] : i \in DOMAIN s} : \A i \in DOMAIN s : s[i] <= m

----------------------------------------------------------------------------
(* populate_doc_id_to_clusters *)

Range(s) == {s[i] : i \in DOMAIN s}

(* doc_id_to_cluster: a later instance with the same doc_id overwrites. *)
DocIdToCluster(ids, lab) ==
  [d \in Range(ids) |->
     lab[CHOOSE i \in DOMAIN ids : ids[i] = d /\ \A j \in DOMAIN ids : ids[j] = d => j <= i]]

(* senses_n_domminates: instances per label. *)
SensesNDominates(lab) ==
  [x \in Range(lab) |-> Cardinality({i \in DOMAIN lab : lab[i] = x})]

(* big_senses (line 128), a list in the code; only membership in it is    *)
(* ever asked, so it is kept as a set.                                     *)
BigSenses(lab, min) ==
  {x \in Range(lab) : SensesNDominates(lab)[x] >= min}

----------------------------------------------------------------------------
(* find_sense_means: the centroid of each sense, kept as sum and count     *)
(* (np.mean is sum / cnt; the cosine distance does not depend on cnt).     *)

FindSenseMeans(n, transformed, lab) ==
  [s \in 0..(n - 1) |->
     LET inst == {i \in DOMAIN lab : lab[i] = s}
     IN [sum |-> [t \in Tokens |-> SumF([i \in inst |-> transformed[i][t]], inst)],
         cnt |-> Cardinality(inst)]]

----------------------------------------------------------------------------
(* merge_small_senses *)

(* cdist(sense_means, sense_means, metric='cosine') *)
DistanceMat(means) ==
  [a \in DOMAIN means |-> [b \in DOMAIN means |-> CosineDist(means[a].sum, means[b].sum)]]

(* Lines 107, 110-113: the ids the walk of one argsorted row can stop at.  *)
(* The walk stops at the first big id; np.argsort's default sort is not    *)
(* stable, so among big ids at the same smallest distance any can come     *)
(* first.  Empty when no id is big: the loop then sets no entry.           *)
(* A faulty ClosestBig: the walk stops at the closest id, big or not. *)
ClosestSense(row, big) ==
  {b \in DOMAIN row : \A c \in DOMAIN row : row[b] <= row[c]}

ClosestBig(row, big) ==
  {b \in big \cap DOMAIN row : \A c \in big \cap DOMAIN row : row[b] <= row[c]}

(* Lines 109-113: every sense_remapping the loop can build. *)
MergeTargets(means, n, big) ==
  LET dm == DistanceMat(means)
      cb == [s \in 0..(n - 1) |-> ClosestBig(dm[s], big)]
      dom == {s \in 0..(n - 1) : cb[s] # {}}
  IN {f \in [dom -> UNION {cb[s] : s \in dom}] : \A s \in dom : f[s] \in cb[s]}

(* Line 114: list(set(sense_remapping.values())).  A CPython set of ints   *)
(* below 8 iterates in ascending order (n_senses <= 8 in every run here).  *)
(* A faulty NewOrderOfSenses: the targets in the order the labels        *)
(* 0 .. n_senses-1 first name them.                                       *)
RECURSIVE FirstSeen(_, _)
FirstSeen(remap, keys) ==
  IF keys = <<>> THEN <<>>
  ELSE LET rest == FirstSeen(remap, Tail(keys))
           v == remap[Head(keys)]
       IN <<v>> \o SelectSeq(rest, LAMBDA x : x # v)

NewOrderFirstSeen(remap) == FirstSeen(remap, Ascending(DOMAIN remap))

NewOrderOfSenses(remap) == Ascending(Range(remap))

(* list.index *)
Index(seq, v) == (CHOOSE i \in DOMAIN seq : seq[i] = v) - 1

(* A faulty Renumber: the target ids are kept as final ids. *)
RenumberNot(remap) == remap

(* Line 115 *)
Renumber(remap) ==
  [k \in DOMAIN remap |-> Index(NewOrderOfSenses(remap), remap[k])]

----------------------------------------------------------------------------
(* new_senses_mapping *)

(* A faulty NewSensesMappingOf: only the doc_ids whose initial label is    *)
(* also a final sense id get an entry.                                     *)
NewSensesMappingOfKept(d2c, remap) ==
  [d \in {x \in DOMAIN d2c : d2c[x] \in Range(remap)} |->
     IF DOMAIN remap # {} THEN remap[d2c[d]] ELSE d2c[d]]

NewSensesMappingOf(d2c, remap) ==
  [d \in DOMAIN d2c |-> IF DOMAIN remap # {} THEN remap[d2c[d]] ELSE d2c[d]]

----------------------------------------------------------------------------
(* The call fit_predict(rep_instances). *)

Collections ==
  UNION {[1..n -> RepChoices] : n \in 1..MaxInst}

Unset == <<>>

(* The object with the attributes __init__ set or the caller has since     *)
(* assigned, at the call of fit_predict on a non-empty collection whose    *)
(* doc_ids are distinct.                                                   *)
Init ==
  /\ \E c \in Collections : data = [i \in DOMAIN c |-> [doc_id |-> i, reps |-> c[i]]]
  /\ max_number_senses \in (0..MaxSenses) \cup {DefaultMaxNumberSenses}
  /\ min_sense_instances \in ((-1)..MaxMinInst) \cup {DefaultMinSenseInstances}
  /\ pc = "get_initial_labels"
  /\ error = "none"
  /\ labels = Unset /\ doc_ids = Unset /\ rep_mat = Unset
  /\ n_senses = 0
  /\ big_senses = {}
  /\ doc_id_to_cluster = Unset /\ sense_means = Unset
  /\ merge_target = Unset /\ sense_remapping = Unset
  /\ senses = Unset

Raise(e) == pc' = "raised" /\ error' = e

(* Lines 62-63: get_initial_labels, then n_senses = np.max(labels) + 1. *)
GetInitialLabels ==
  /\ pc = "get_initial_labels"
  /\ IF Len(data) < 2
     THEN \* linkage of an empty condensed matrix
          /\ Raise("ValueError")
          /\ UNCHANGED <<labels, doc_ids, rep_mat, n_senses>>
     ELSE IF PyRow(Len(data) - 1, -max_number_senses) = 0
     THEN \* hierarchical_linkage[-max_number_senses, 2] out of range
          /\ Raise("IndexError")
          /\ UNCHANGED <<labels, doc_ids, rep_mat, n_senses>>
     ELSE \E X \in {Tfidf(DictVectorize(data))} :
          \E Z \in {Linkage(Pdist(X))} :
          \E T \in {Fcluster(Z, Z[PyRow(Len(Z), -max_number_senses)].dist)} :
          \E lab \in {[i \in DOMAIN T |-> T[i] - 1]} :
             /\ labels' = lab
             /\ doc_ids' = [i \in DOMAIN data |-> data[i].doc_id]
             /\ rep_mat' = X
             /\ n_senses' = SeqMax(lab) + 1
             /\ pc' = "populate_doc_id_to_clusters"
             /\ UNCHANGED error
  /\ UNCHANGED <<data, max_number_senses, min_sense_instances, big_senses,
                 doc_id_to_cluster, sense_means, merge_target, sense_remapping, senses>>

(* Line 65 *)
PopulateDocIdToClusters ==
  /\ pc = "populate_doc_id_to_clusters"
  /\ big_senses' = BigSenses(labels, min_sense_instances)
  /\ doc_id_to_cluster' = DocIdToCluster(doc_ids, labels)
  /\ pc' = "find_sense_means"
  /\ UNCHANGED <<data, max_number_senses, min_sense_instances, error, labels, doc_ids,
                 rep_mat, n_senses, sense_means, merge_target, sense_remapping, senses>>

(* Line 67 *)
FindSenseMeansStep ==
  /\ pc = "find_sense_means"
  /\ sense_means' = FindSenseMeans(n_senses, rep_mat, labels)
  /\ pc' = "merge_small_senses"
  /\ UNCHANGED <<data, max_number_senses, min_sense_instances, error, labels, doc_ids,
                 rep_mat, n_senses, big_senses, doc_id_to_cluster, merge_target,
                 sense_remapping, senses>>

(* Line 69: merge_small_senses(sense_means, n_senses, big_senses, labels). *)
MergeSmallSenses ==
  /\ pc = "merge_small_senses"
  /\ IF min_sense_instances > 0
     THEN \E f \in MergeTargets(sense_means, n_senses, big_senses) :
          \E g \in {Renumber(f)} :
            /\ merge_target' = f
            /\ sense_remapping' = g
            /\ IF \A i \in DOMAIN labels : labels[i] \in DOMAIN g
               THEN /\ labels' = [i \in DOMAIN labels |-> g[labels[i]]]
                    /\ pc' = "new_senses_mapping"
                    /\ UNCHANGED error
               ELSE \* line 117: sense_remapping[x] for a label with no entry
                    /\ Raise("KeyError")
                    /\ UNCHANGED labels
     ELSE \* line 118 reads sense_remapping, which no line has assigned
          /\ Raise("UnboundLocalError")
          /\ UNCHANGED <<labels, merge_target, sense_remapping>>
  /\ UNCHANGED <<data, max_number_senses, min_sense_instances, doc_ids, rep_mat,
                 n_senses, big_senses, doc_id_to_cluster, sense_means, senses>>

(* Lines 71-72 *)
NewSensesMapping ==
  /\ pc = "new_senses_mapping"
  /\ senses' = NewSensesMappingOf(doc_id_to_cluster, sense_remapping)
  /\ pc' = "returned"
  /\ UNCHANGED <<data, max_number_senses, min_sense_instances, error, labels, doc_ids,
                 rep_mat, n_senses, big_senses, doc_id_to_cluster, sense_means,
                 merge_target, sense_remapping>>

Next ==
  \/ GetInitialLabels
  \/ PopulateDocIdToClusters
  \/ FindSenseMeansStep
  \/ MergeSmallSenses
  \/ NewSensesMapping

Spec == Init /\ [][Next]_vars

----------------------------------------------------------------------------
(* A direct call merge_small_senses(sense_means, n_senses, big_senses,     *)
(* labels) with arbitrary arguments: any centroids, any big set, one       *)
(* observation per sense.                                                  *)

InitMerge ==
  /\ data = Unset
  /\ max_number_senses = DefaultMaxNumberSenses
  /\ min_sense_instances \in {0, DefaultMinSenseInstances}
  /\ pc = "merge_small_senses"
  /\ error = "none"
  /\ n_senses \in 1..MaxMergeSenses
  /\ labels = [i \in 1..n_senses |-> i - 1]
  /\ doc_ids = Unset /\ rep_mat = Unset
  /\ big_senses \in SUBSET (0..(n_senses - 1))
  /\ doc_id_to_cluster = Unset
  /\ \E m \in [0..(n_senses - 1) -> MeanVecs] :
        sense_means = [s \in DOMAIN m |-> [sum |-> m[s], cnt |-> 1]]
  /\ merge_target = Unset /\ sense_remapping = Unset
  /\ senses = Unset

NextMerge == MergeSmallSenses

SpecMerge == InitMerge /\ [][NextMerge]_vars

----------------------------------------------------------------------------
(* Properties. *)

InputDocIds == {data[i].doc_id : i \in DOMAIN data}

(* The initial cut as populate_doc_id_to_clusters recorded it. *)
InitialMembers(x) == {d \in DOMAIN doc_id_to_cluster : doc_id_to_cluster[d] = x}

FinalMembers(v) == {d \in DOMAIN senses : senses[d] = v}

(* merge_small_senses has built and renumbered its table and returned. *)
Merged == pc \in {"new_senses_mapping", "returned"}

(* C1: the SenseMap fit_predict returns has exactly the doc_ids of the     *)
(* input as its keys.                                                      *)
C1_KeysAreInputDocIds ==
  pc = "returned" => DOMAIN senses = InputDocIds

C1_Witness ==
  /\ pc = "returned"
  /\ Cardinality(InputDocIds) >= 4
  /\ \E x \in 0..(n_senses - 1) : x \notin big_senses

(* C2: under a valid config the sense ids of the returned SenseMap are     *)
(* exactly 0 .. k-1 for some k >= 1.                                       *)
C2_ContiguousSenseIds ==
  (pc = "returned" /\ max_number_senses >= 1 /\ min_sense_instances >= 0)
    => \E k \in 1..Len(data) : Range(senses) = 0..(k - 1)

(* A returned run in which line 115 changed the id of a target. *)
C2_Witness ==
  /\ pc = "returned" /\ max_number_senses >= 1 /\ min_sense_instances >= 0
  /\ \E s \in DOMAIN merge_target : merge_target[s] # sense_remapping[s]
  /\ \E x \in 0..(n_senses - 1) : x \notin big_senses

(* C3: when the initial cut has at least one cluster with at least         *)
(* min_sense_instances members, every sense of the returned SenseMap has   *)
(* at least min_sense_instances members.                                   *)
C3_NoSmallFinalSense ==
  (pc = "returned" /\ big_senses # {})
    => \A v \in Range(senses) : Cardinality(FinalMembers(v)) >= min_sense_instances

C3_Witness ==
  /\ pc = "returned"
  /\ Cardinality(big_senses) >= 2
  /\ \E x \in 0..(n_senses - 1) :
        /\ Cardinality(InitialMembers(x)) < min_sense_instances
        /\ Cardinality(FinalMembers(sense_remapping[x])) > Cardinality(InitialMembers(x))

(* C4: for every non-empty input get_initial_labels yields between 1 and   *)
(* max_number_senses distinct labels (max_number_senses >= 1).             *)
C4_InitialCutWithinBound ==
  (max_number_senses >= 1 /\ pc # "get_initial_labels")
    => /\ labels # Unset
       /\ Cardinality(Range(labels)) \in 1..max_number_senses

(* Where get_initial_labels returns at all, the cut is within the bound. *)
InitialCutWithinBoundWhenReturned ==
  (max_number_senses >= 1 /\ labels # Unset /\ pc = "populate_doc_id_to_clusters")
    => Cardinality(Range(labels)) \in 1..max_number_senses

(* C5: with fewer instances than max_number_senses the call does not throw *)
(* in the cut and makes at most as many clusters as instances; a single    *)
(* instance is returned mapped to sense 0.                                 *)
C5_SmallInputDoesNotThrow ==
  /\ Len(data) < max_number_senses
       => /\ error \notin {"ValueError", "IndexError"}
          /\ labels # Unset => Cardinality(Range(labels)) <= Len(data)
  /\ (Len(data) = 1 /\ pc \in {"returned", "raised"})
       => /\ pc = "returned"
          /\ senses = [d \in InputDocIds |-> 0]

(* C6: a config with max_number_senses < 1 or min_sense_instances < 0 is   *)
(* refused with InvalidConfigError before anything is computed, and no     *)
(* SenseMap is returned.  Stated for collections of two or more instances, *)
(* where the linkage itself cannot fail.                                   *)
C6_InvalidConfigRejected ==
  (Len(data) >= 2 /\ (max_number_senses < 1 \/ min_sense_instances < 0))
    => \/ pc = "get_initial_labels"
       \/ pc = "raised" /\ error = "InvalidConfigError" /\ labels = Unset

(* C7: merge_small_senses maps every label in 0 .. n_senses-1 to one final *)
(* label, and with no big cluster it ends in a fallback mapping or the     *)
(* degenerate-merge error, never in a failed lookup.                       *)
C7_MergeTotalNoLookupFailure ==
  /\ Merged => DOMAIN sense_remapping = 0..(n_senses - 1)
  /\ error # "KeyError"

(* C8: with min_sense_instances <= 0 fit_predict returns the labels of the *)
(* initial cut unchanged.                                                  *)
C8_DisabledMergePassesThrough ==
  (min_sense_instances <= 0 /\ doc_id_to_cluster # Unset /\ pc \in {"returned", "raised"})
    => /\ pc = "returned"
       /\ senses = doc_id_to_cluster

MergeTargetIsClosestBig ==
  Merged
    => \A s \in DOMAIN merge_target :
          merge_target[s] \in ClosestBig(DistanceMat(sense_means)[s], big_senses)

(* No cluster has two big clusters equally close to it: the targets do not *)
(* depend on how the sort orders equal distances.                          *)
NoTiedBig ==
  \A s \in DOMAIN sense_means :
     Cardinality(ClosestBig(DistanceMat(sense_means)[s], big_senses)) <= 1

====
